---- MODULE Spec2Model ----
(***************************************************************************)
(* kubelet-exporter: the volume stats collector.                           *)
(*                                                                         *)
(* volumeStatsCollector.Collect (pkg/collectors/volume_stats.go) fetches   *)
(* the kubelet stats summary, parses it, walks pods and volumes, and sends *)
(* six gauges for every persistent volume claim it has not yet seen in the *)
(* same call.  One Collect call is modelled as a small process: Get, then  *)
(* ReadAll + Unmarshal, then one step per volume of the walk, then Return. *)
(* A nil pointer dereference is a panic; nothing in the program recovers   *)
(* it, so it ends the process.                                             *)
(*                                                                         *)
(* Go values are represented as follows.                                   *)
(*   pointer / optional      Nil (= <<>>) or <<v>>                         *)
(*   slice                   Nil (= <<>>) or <<sequence>>                  *)
(*   string                  TLA+ string, + is \o                          *)
(*   uint64, float64         small naturals (float64(x) is exact below     *)
(*                           2^53, all values used here are far below)     *)
(***************************************************************************)
EXTENDS Integers, Sequences, FiniteSets, TLC

VARIABLES
    pc,            \* per call: "idle", "read", "walk", "returned", "panicked"
    resp,          \* per call: what the network gave this call (the input)
    statsSummary,  \* per call: the local v1alpha1.Summary
    pos,           \* per call: <<pod index, volume index>> of the walk
    allPVCs,       \* per call: the local sets.String of dedup keys
    ch,            \* per call: the metrics sent on ch by this call, in order
    gets,          \* per call: number of HTTP GETs issued by this call
    glog,          \* per call: the error this call logged, or "none"
    crashed        \* the process was terminated by an unrecovered panic

vars == <<pc, resp, statsSummary, pos, allPVCs, ch, gets, glog, crashed>>

(***************************************************************************)
(* Bounds and the sample universe of inputs.                               *)
(***************************************************************************)
\* largest number of volumes (over all pods) in a summary document
MaxVolumes == 3

\* the two scrape slots that may overlap
Calls == {"s1", "s2"}

Nil == <<>>
Ptr(v) == <<v>>
Deref(p) == p[1]

\* PVCReference
PVCReference(ns, name) == [Namespace |-> ns, Name |-> name]

\* claim references of the sample documents; "/" occurs inside some of them
PVCRefs ==
    { PVCReference("a", "b/c"), PVCReference("a/b", "c"), PVCReference("a", "c") }

\* the six FsStats fields in the order Collect reads them
Fields ==
    << "CapacityBytes", "AvailableBytes", "UsedBytes",
       "Inodes", "InodesFree", "InodesUsed" >>

\* FsStats with every field present; field k holds 10 * base + k
FullStats(base) == [f \in {Fields[k] : k \in 1..6} |->
                      Ptr(10 * base + (CHOOSE k \in 1..6 : Fields[k] = f))]

\* FsStats with one field absent
Without(stats, f) == [stats EXCEPT ![f] = Nil]

FsStatsSamples ==
    { FullStats(1), FullStats(2), Without(FullStats(1), "UsedBytes") }

\* VolumeStats: embedded FsStats plus PVCRef (Name plays no part in Collect)
VolumeStats(ref, fs) == [PVCRef |-> ref, FsStats |-> fs]

VolumeSamples ==
    { VolumeStats(r, fs) : r \in {Nil} \cup {Ptr(x) : x \in PVCRefs},
                           fs \in FsStatsSamples }

\* PodStats: a pod with no "volume" key decodes to a nil VolumeStats slice
PodStats(vols) == [VolumeStats |-> IF vols = <<>> THEN Nil ELSE Ptr(vols)]

\* the Summary whose volumes vs are split over two pods after the k-th
SummaryOf(vs, k) ==
    [Pods |-> Ptr(<< PodStats(SubSeq(vs, 1, k)), PodStats(SubSeq(vs, k + 1, Len(vs))) >>)]

\* Summaries without volumes: no "pods" key, an empty pod list, empty pods
EmptySummaries ==
    { [Pods |-> Nil], [Pods |-> Ptr(<<>>)], SummaryOf(<<>>, 0) }

\* Summaries with one volume
SingleSummaries ==
    { SummaryOf(<<v>>, k) : v \in VolumeSamples, k \in 0..1 }

\* Response bodies as ioutil.ReadAll hands them to json.Unmarshal:
\*   "ok"        well-formed JSON of the Summary shape, decoding to doc
\*   "syntax"    not JSON at all (includes a body cut in the middle)
\*   "mismatch"  JSON whose shape does not fit Summary; doc is what was
\*               decoded around the mismatch
OkBody(d) == [kind |-> "ok", doc |-> d]
SyntaxBody == [kind |-> "syntax", doc |-> [Pods |-> Nil]]
MismatchBody(d) == [kind |-> "mismatch", doc |-> d]

\* What one GET can give: an error from ctxhttp.Get (deadline, transport),
\* or a response whose body read ends normally or (readErr) with an error
\* after the bytes `body` were read.
FailedGet(e) == [getErr |-> e, readErr |-> FALSE, body |-> SyntaxBody]
Fetched(readErr, body) == [getErr |-> "none", readErr |-> readErr, body |-> body]

NoResponse == FailedGet("none")

\* The other responses: a failed GET; a body that is not a well-formed
\* summary, or one without volumes, read with or without a read error; a
\* body read that ended with an error after the bytes of a whole document
\* of one volume had arrived.
OtherResponses ==
    { FailedGet(e) : e \in {"timeout", "transport"} }
    \cup { Fetched(r, b) :
             r \in BOOLEAN,
             b \in {SyntaxBody}
                   \cup { OkBody(d) : d \in EmptySummaries }
                   \cup { MismatchBody(d) : d \in EmptySummaries \cup SingleSummaries } }
    \cup { Fetched(TRUE, OkBody(d)) : d \in SingleSummaries }

(***************************************************************************)
(* The collector: descriptors, addGauge, the dedup key.                    *)
(***************************************************************************)
volumeStatsCapacityBytesKey == "kubelet_volume_stats_capacity_bytes"
volumeStatsAvailableBytesKey == "kubelet_volume_stats_available_bytes"
volumeStatsUsedBytesKey == "kubelet_volume_stats_used_bytes"
volumeStatsInodesKey == "kubelet_volume_stats_inodes"
volumeStatsInodesFreeKey == "kubelet_volume_stats_inodes_free"
volumeStatsInodesUsedKey == "kubelet_volume_stats_inodes_used"

\* prometheus.NewDesc(key, help, []string{"namespace", "persistentvolumeclaim"}, nil)
NewDesc(key) == [fqName |-> key, variableLabels |-> <<"namespace", "persistentvolumeclaim">>]

\* Describe: the six descriptors in the order they are sent
Describe ==
    << NewDesc(volumeStatsCapacityBytesKey), NewDesc(volumeStatsAvailableBytesKey),
       NewDesc(volumeStatsUsedBytesKey), NewDesc(volumeStatsInodesKey),
       NewDesc(volumeStatsInodesFreeKey), NewDesc(volumeStatsInodesUsedKey) >>

\* (mutation) used bytes and available bytes sent under each other's descriptor
DescOf_Swapped(k) == Describe[IF k = 2 THEN 3 ELSE IF k = 3 THEN 2 ELSE k]

\* the descriptor Collect pairs with the k-th field it reads
DescOf(k) == Describe[k]

\* addGauge: the metric sent on ch; label values are namespace, then name
addGauge(desc, pvcRef, v) ==
    [desc |-> desc, lv |-> <<pvcRef.Namespace, pvcRef.Name>>, v |-> v]

\* pvcUniqStr := pvcRef.Namespace + "/" + pvcRef.Name
pvcUniqStr(pvcRef) == pvcRef.Namespace \o "/" \o pvcRef.Name

\* (mutation) the already-collected test never fires
Has_Never(set, key) == FALSE

\* allPVCs.Has(pvcUniqStr)
Has(set, key) == key \in set

\* (mutation) the nil test on pvcRef is missing
NoPVCRef_Never(volumeStat) == FALSE

\* if pvcRef == nil { continue }
NoPVCRef(volumeStat) == volumeStat.PVCRef = Nil

\* Number of addGauge calls of one volume that complete: the arguments are
\* evaluated before each call, so the first absent field panics (nil pointer
\* dereference) after the gauges of the fields before it were sent.
Sent(fs) ==
    IF \A k \in 1..6 : fs[Fields[k]] # Nil THEN 6
    ELSE (CHOOSE k \in 1..6 : fs[Fields[k]] = Nil
                              /\ \A j \in 1..(k - 1) : fs[Fields[j]] # Nil) - 1

\* the gauges one volume sends, in order
Gauges(pvcRef, fs) ==
    [k \in 1..Sent(fs) |-> addGauge(DescOf(k), pvcRef, Deref(fs[Fields[k]]))]

\* One iteration of the inner loop over volumeStat: the metrics on ch, the
\* dedup set, and whether the iteration panicked.
VolumeIter(seen, out, volumeStat) ==
    IF NoPVCRef(volumeStat)
    THEN [ch |-> out, allPVCs |-> seen, panic |-> FALSE]
    ELSE IF volumeStat.PVCRef = Nil
    THEN \* pvcRef.Namespace on a nil pointer
         [ch |-> out, allPVCs |-> seen, panic |-> TRUE]
    ELSE LET pvcRef == Deref(volumeStat.PVCRef)
             key == pvcUniqStr(pvcRef)
             fs == volumeStat.FsStats
         IN  IF Has(seen, key)
             THEN [ch |-> out, allPVCs |-> seen, panic |-> FALSE]
             ELSE [ch |-> out \o Gauges(pvcRef, fs),
                   allPVCs |-> IF Sent(fs) = 6 THEN seen \cup {key} ELSE seen,
                   panic |-> Sent(fs) < 6]

(***************************************************************************)
(* The walk over statsSummary.Pods and podStats.VolumeStats.               *)
(***************************************************************************)
End == <<0, 0>>

VolumesOf(podStats) ==
    IF podStats.VolumeStats = Nil THEN <<>> ELSE Deref(podStats.VolumeStats)

\* the first volume at or after pod pi; pods without volumes are skipped
RECURSIVE FirstAt(_, _)
FirstAt(pods, pi) ==
    IF pi > Len(pods) THEN End
    ELSE IF VolumesOf(pods[pi]) = <<>> THEN FirstAt(pods, pi + 1)
    ELSE <<pi, 1>>

\* if statsSummary.Pods != nil { for ... }
FirstPos(summary) ==
    IF summary.Pods = Nil THEN End ELSE FirstAt(Deref(summary.Pods), 1)

NextPos(summary, p) ==
    LET pods == Deref(summary.Pods)
    IN  IF p[2] < Len(VolumesOf(pods[p[1]]))
        THEN <<p[1], p[2] + 1>>
        ELSE FirstAt(pods, p[1] + 1)

VolumeAt(summary, p) == VolumesOf(Deref(summary.Pods)[p[1]])[p[2]]

(***************************************************************************)
(* Fetching and parsing.                                                   *)
(***************************************************************************)
\* rBody, _ := ioutil.ReadAll(resp.Body): the bytes read, the error dropped
ReadAll(r) == r.body

\* (mutation) only a syntax error makes Collect return
Unmarshal_SyntaxOnly(rBody) ==
    [err |-> rBody.kind = "syntax",
     v |-> IF rBody.kind = "syntax" THEN [Pods |-> Nil] ELSE rBody.doc]

\* json.Unmarshal into a zero Summary: a syntax error is found before
\* anything is stored; a shape mismatch is reported after the rest was stored
Unmarshal(rBody) ==
    [err |-> rBody.kind # "ok",
     v |-> IF rBody.kind = "syntax" THEN [Pods |-> Nil] ELSE rBody.doc]

\* (mutation) allPVCs kept in the collector, shared by all calls
Seen_Shared(c) == UNION { allPVCs[d] : d \in Calls }

\* the dedup set a call consults: allPVCs is a local of the call
Seen(c) == allPVCs[c]

(***************************************************************************)
(* Actions.                                                                *)
(***************************************************************************)
Init ==
    /\ pc = [c \in Calls |-> "idle"]
    /\ resp = [c \in Calls |-> NoResponse]
    /\ statsSummary = [c \in Calls |-> [Pods |-> Nil]]
    /\ pos = [c \in Calls |-> End]
    /\ allPVCs = [c \in Calls |-> {}]
    /\ ch = [c \in Calls |-> <<>>]
    /\ gets = [c \in Calls |-> 0]
    /\ glog = [c \in Calls |-> "none"]
    /\ crashed = FALSE

\* A scrape enters Collect with a fresh ch and issues the GET.
Get(c, r) ==
    /\ ~crashed
    /\ pc[c] = "idle"
    /\ resp' = [resp EXCEPT ![c] = r]
    /\ glog' = [glog EXCEPT ![c] = IF r.getErr # "none" THEN "get" ELSE "none"]
    /\ pc' = [pc EXCEPT ![c] = IF r.getErr # "none" THEN "returned" ELSE "read"]
    /\ gets' = [gets EXCEPT ![c] = 1]
    /\ ch' = [ch EXCEPT ![c] = <<>>]
    /\ statsSummary' = [statsSummary EXCEPT ![c] = [Pods |-> Nil]]
    /\ allPVCs' = [allPVCs EXCEPT ![c] = {}]
    /\ pos' = [pos EXCEPT ![c] = End]
    /\ UNCHANGED crashed

\* ReadAll, Unmarshal, and the entry into the loops.
ReadParse(c) ==
    /\ ~crashed
    /\ pc[c] = "read"
    /\ LET u == Unmarshal(ReadAll(resp[c]))
       IN  IF u.err
           THEN /\ glog' = [glog EXCEPT ![c] = "parse"]
                /\ pc' = [pc EXCEPT ![c] = "returned"]
                /\ UNCHANGED <<statsSummary, pos>>
           ELSE /\ statsSummary' = [statsSummary EXCEPT ![c] = u.v]
                /\ pos' = [pos EXCEPT ![c] = FirstPos(u.v)]
                /\ pc' = [pc EXCEPT ![c] =
                            IF FirstPos(u.v) = End THEN "returned" ELSE "walk"]
                /\ UNCHANGED glog
    /\ UNCHANGED <<resp, allPVCs, ch, gets, crashed>>

\* One iteration of the inner loop; a panic is recovered nowhere in the
\* program, so it ends the process.
Iterate(c) ==
    /\ ~crashed
    /\ pc[c] = "walk"
    /\ LET r == VolumeIter(Seen(c), ch[c], VolumeAt(statsSummary[c], pos[c]))
           n == NextPos(statsSummary[c], pos[c])
       IN  /\ ch' = [ch EXCEPT ![c] = r.ch]
           /\ allPVCs' = [allPVCs EXCEPT ![c] = r.allPVCs]
           /\ IF r.panic
              THEN /\ pc' = [pc EXCEPT ![c] = "panicked"]
                   /\ crashed' = TRUE
                   /\ UNCHANGED pos
              ELSE /\ pc' = [pc EXCEPT ![c] = IF n = End THEN "returned" ELSE "walk"]
                   /\ pos' = [pos EXCEPT ![c] = n]
                   /\ UNCHANGED crashed
    /\ UNCHANGED <<resp, statsSummary, gets, glog>>

\* The scrape that called Collect is over: its locals and its ch are gone,
\* and the slot can serve the next scrape.
Return(c) ==
    /\ ~crashed
    /\ pc[c] = "returned"
    /\ pc' = [pc EXCEPT ![c] = "idle"]
    /\ resp' = [resp EXCEPT ![c] = NoResponse]
    /\ statsSummary' = [statsSummary EXCEPT ![c] = [Pods |-> Nil]]
    /\ pos' = [pos EXCEPT ![c] = End]
    /\ allPVCs' = [allPVCs EXCEPT ![c] = {}]
    /\ ch' = [ch EXCEPT ![c] = <<>>]
    /\ gets' = [gets EXCEPT ![c] = 0]
    /\ glog' = [glog EXCEPT ![c] = "none"]
    /\ UNCHANGED crashed

\* A scrape whose GET gives a well-formed document of 1..MaxVolumes volumes,
\* read to its end.
Scrape(c) ==
    /\ pc[c] = "idle"
    /\ \E n \in 1..MaxVolumes : \E vs \in [1..n -> VolumeSamples] : \E k \in 0..n :
         Get(c, Fetched(FALSE, OkBody(SummaryOf(vs, k))))

\* A scrape whose GET gives anything else.
ScrapeOther(c) ==
    /\ pc[c] = "idle"
    /\ \E r \in OtherResponses : Get(c, r)

\* Scrapes served one at a time.
Next ==
    \/ Scrape("s1")
    \/ ScrapeOther("s1")
    \/ ReadParse("s1")
    \/ Iterate("s1")
    \/ Return("s1")

Spec == Init /\ [][Next]_vars

(***************************************************************************)
(* Overlapping scrapes: the scrape server may call Collect again while an  *)
(* earlier call is still running.  The sample inputs are smaller here.     *)
(***************************************************************************)
\* largest number of volumes in a document fetched by overlapping scrapes
MaxConcVolumes == 2

ConcVolumes ==
    { VolumeStats(Ptr(r), fs) :
        r \in { PVCReference("a", "b/c"), PVCReference("a", "c") },
        fs \in { FullStats(1), Without(FullStats(1), "UsedBytes") } }

\* An overlapping scrape: a failed GET, or a document of one pod
ScrapeConc(c) ==
    /\ pc[c] = "idle"
    /\ \/ Get(c, FailedGet("timeout"))
       \/ \E n \in 1..MaxConcVolumes : \E vs \in [1..n -> ConcVolumes] :
            Get(c, Fetched(FALSE, OkBody(SummaryOf(vs, n))))

NextConc ==
    \E c \in Calls :
        \/ ScrapeConc(c)
        \/ ReadParse(c)
        \/ Iterate(c)
        \/ Return(c)

SpecConc == Init /\ [][NextConc]_vars

(***************************************************************************)
(* Collect as one call running alone, from the response to the metrics.    *)
(***************************************************************************)
\* the loops from position p up to (not including) position stop
RECURSIVE WalkFrom(_, _, _, _, _)
WalkFrom(summary, p, stop, seen, out) ==
    IF p = stop
    THEN [ch |-> out, allPVCs |-> seen, panic |-> FALSE]
    ELSE LET r == VolumeIter(seen, out, VolumeAt(summary, p))
         IN  IF r.panic THEN r
             ELSE WalkFrom(summary, NextPos(summary, p), stop, r.allPVCs, r.ch)

Walk(summary) == WalkFrom(summary, FirstPos(summary), End, {}, <<>>)

Collect(r) ==
    IF r.getErr # "none" \/ Unmarshal(ReadAll(r)).err
    THEN [ch |-> <<>>, allPVCs |-> {}, panic |-> FALSE]
    ELSE Walk(Unmarshal(ReadAll(r)).v)

(***************************************************************************)
(* Vocabulary of the properties.                                           *)
(***************************************************************************)
\* the call is over: it returned, or it panicked
Ended(c) == pc[c] \in {"returned", "panicked"}

\* the call got and parsed a document
Parsed(c) == pc[c] \in {"walk", "returned", "panicked"} /\ glog[c] = "none"

\* the volumes of a document in document order
RECURSIVE FlatFrom(_, _)
FlatFrom(pods, i) ==
    IF i > Len(pods) THEN <<>> ELSE VolumesOf(pods[i]) \o FlatFrom(pods, i + 1)

Flat(summary) ==
    IF summary.Pods = Nil THEN <<>> ELSE FlatFrom(Deref(summary.Pods), 1)

\* label values of a claim identity
Labels(id) == <<id.Namespace, id.Name>>

\* the claim identities a document references, and where
Referencing(flat, id) ==
    { i \in 1..Len(flat) : flat[i].PVCRef # Nil /\ Deref(flat[i].PVCRef) = id }

Identities(flat) ==
    { Deref(flat[i].PVCRef) : i \in { j \in 1..Len(flat) : flat[j].PVCRef # Nil } }

Min(S) == CHOOSE x \in S : \A y \in S : x <= y

\* the records of a call that carry the labels of one identity
RecordsOf(out, id) == SelectSeq(out, LAMBDA m : m.lv = Labels(id))

\* out is the whole set of six of volumeStat: fixed kinds, its values
IsSixOf(out, volumeStat) ==
    /\ Len(out) = 6
    /\ \A k \in 1..6 :
         /\ out[k].desc = Describe[k]
         /\ out[k].lv = Labels(Deref(volumeStat.PVCRef))
         /\ Ptr(out[k].v) = volumeStat.FsStats[Fields[k]]

\* position of a record's descriptor in Describe (0: not one of the six)
KindOf(m) ==
    IF \E k \in 1..6 : Describe[k] = m.desc
    THEN CHOOSE k \in 1..6 : Describe[k] = m.desc
    ELSE 0

SomeAbsent(volumeStat) == \E k \in 1..6 : volumeStat.FsStats[Fields[k]] = Nil

\* a document without its volumes that reference no claim
WithoutUnclaimed(summary) ==
    IF summary.Pods = Nil THEN summary
    ELSE LET pods == Deref(summary.Pods)
         IN  [Pods |-> Ptr([i \in 1..Len(pods) |->
                 PodStats(SelectSeq(VolumesOf(pods[i]), LAMBDA v : v.PVCRef # Nil))])]

(***************************************************************************)
(* Properties.                                                             *)
(***************************************************************************)

\* C1: when a call that parsed its document is over, every claim identity
\* that two or more volumes of the document reference has exactly one set
\* of six records, and they are the six of the first volume referencing it.
C1_OneSetOfFirstVolume ==
    \A c \in Calls :
        (Ended(c) /\ Parsed(c)) =>
            LET flat == Flat(statsSummary[c])
            IN  \A id \in Identities(flat) :
                    Cardinality(Referencing(flat, id)) >= 2 =>
                        IsSixOf(RecordsOf(ch[c], id), flat[Min(Referencing(flat, id))])

\* C2: when a call has returned from a parsed document, any two volumes
\* whose claim references differ in namespace or in name both have their
\* own set of six records.
C2_DistinctRefsBothEmitted ==
    \A c \in Calls :
        (pc[c] = "returned" /\ Parsed(c)) =>
            LET flat == Flat(statsSummary[c])
            IN  \A id1, id2 \in Identities(flat) :
                    (id1.Namespace # id2.Namespace \/ id1.Name # id2.Name) =>
                        /\ Len(RecordsOf(ch[c], id1)) = 6
                        /\ Len(RecordsOf(ch[c], id2)) = 6

\* C3: at every moment the records of a call are ordered.  Every record
\* carries the labels of a claim of the document and one of the six kinds.
\* The first record is a capacity-bytes record.  A record with the labels of
\* its predecessor has the next kind of the fixed order; a record with other
\* labels starts a new block with capacity bytes, and its claim is first
\* referenced later in the document than the claim of its predecessor (so
\* no claim has two blocks, and a repeated reference moves nothing).  After
\* a normal return every block is whole: it ends with inodes used.
C3_FirstEncounterOrder ==
    \A c \in Calls :
        LET out == ch[c]
            flat == Flat(statsSummary[c])
            rank(m) == Min({ i \in 1..Len(flat) :
                               flat[i].PVCRef # Nil /\ Labels(Deref(flat[i].PVCRef)) = m.lv })
        IN  \A i \in 1..Len(out) :
                /\ \E id \in Identities(flat) : Labels(id) = out[i].lv
                /\ KindOf(out[i]) \in 1..6
                /\ i = 1 => KindOf(out[i]) = 1
                /\ i > 1 =>
                     IF out[i - 1].lv = out[i].lv
                     THEN KindOf(out[i]) = KindOf(out[i - 1]) + 1
                     ELSE /\ KindOf(out[i]) = 1
                          /\ rank(out[i - 1]) < rank(out[i])
                /\ pc[c] = "returned" =>
                     \/ KindOf(out[i]) = 6
                     \/ /\ i < Len(out)
                        /\ out[i + 1].lv = out[i].lv

\* C3 witness: claims A, B, A-again; the output is A's six, then B's six.
C3_Witness ==
    LET flat == Flat(statsSummary["s1"])
        out == ch["s1"]
    IN  /\ pc["s1"] = "returned"
        /\ Len(flat) = 3
        /\ \A i \in 1..3 : flat[i].PVCRef # Nil
        /\ flat[1].PVCRef = flat[3].PVCRef
        /\ flat[1].PVCRef # flat[2].PVCRef
        /\ flat[1].FsStats # flat[3].FsStats
        /\ Len(out) = 12
        /\ IsSixOf(SubSeq(out, 1, 6), flat[1])
        /\ IsSixOf(SubSeq(out, 7, 12), flat[2])

\* C4: when a call is over, its records and its way of ending are those of
\* a call on the same document with the volumes that reference no claim
\* taken out, whatever the filesystem fields of those volumes are.
C4_UnclaimedVolumesIgnored ==
    \A c \in Calls :
        (Ended(c) /\ Parsed(c)) =>
            LET w == Walk(WithoutUnclaimed(statsSummary[c]))
            IN  /\ ch[c] = w.ch
                /\ (pc[c] = "panicked") = w.panic
                /\ \A i \in 1..Len(ch[c]) :
                     \E id \in Identities(Flat(statsSummary[c])) : Labels(id) = ch[c][i].lv

\* C4 witness: a returned call whose document has a volume without claim
\* reference and with an absent field, between two volumes with claims.
C4_Witness ==
    LET flat == Flat(statsSummary["s1"])
    IN  /\ pc["s1"] = "returned"
        /\ Len(flat) = 3
        /\ flat[1].PVCRef # Nil
        /\ flat[2].PVCRef = Nil /\ SomeAbsent(flat[2])
        /\ flat[3].PVCRef # Nil
        /\ Len(ch["s1"]) = 12

\* C5: a call whose GET failed, or whose body is not a well-formed summary,
\* has sent no record, has issued exactly one GET, never enters the walk,
\* and has logged the failure when it returns.
C5_FailureEmitsNothing ==
    \A c \in Calls :
        (pc[c] # "idle" /\ (resp[c].getErr # "none" \/ resp[c].body.kind # "ok")) =>
            /\ ch[c] = <<>>
            /\ gets[c] = 1
            /\ pc[c] \in {"read", "returned"}
            /\ pc[c] = "returned" => glog[c] \in {"get", "parse"}

\* C5 witness: a body of the wrong shape that had decoded a claim volume.
C5_Witness ==
    /\ pc["s1"] = "returned"
    /\ glog["s1"] = "parse"
    /\ resp["s1"].body.kind = "mismatch"
    /\ Identities(Flat(resp["s1"].body.doc)) # {}

\* C6: a call whose body read ended with an error sends no record: the
\* bytes read before the error are not turned into gauges.
C6_BodyReadErrorEmitsNothing ==
    \A c \in Calls :
        (pc[c] # "idle" /\ resp[c].readErr) => ch[c] = <<>>

\* C7: for a volume that references a claim and has an absent field, the
\* claim's records are never a proper non-empty subset of its six, and no
\* record holds a zero in place of the absent value.
C7_WholeSetOrNothing ==
    \A c \in Calls :
        LET flat == Flat(statsSummary[c])
        IN  \A i \in 1..Len(flat) :
                (flat[i].PVCRef # Nil /\ SomeAbsent(flat[i])) =>
                    LET mine == RecordsOf(ch[c], Deref(flat[i].PVCRef))
                    IN  /\ Len(mine) \in {0, 6}
                        /\ \A k \in 1..Len(mine) : mine[k].v # 0

\* C8: no failure inside a Collect call ends the process: no call panics.
C8_NoFailureTerminates ==
    /\ ~crashed
    /\ \A c \in Calls : pc[c] # "panicked"

\* C9: overlapping calls do not interfere.  A call in its walk holds the
\* records and the dedup set of a call running alone over the part of the
\* document walked so far; a call that is over holds the records, and ended
\* the way, of a call running alone on the response it fetched.
C9_CallsDoNotInterfere ==
    \A c \in Calls :
        /\ pc[c] = "walk" =>
             LET w == WalkFrom(statsSummary[c], FirstPos(statsSummary[c]), pos[c], {}, <<>>)
             IN  /\ ~w.panic
                 /\ ch[c] = w.ch
                 /\ allPVCs[c] = w.allPVCs
        /\ Ended(c) =>
             /\ ch[c] = Collect(resp[c]).ch
             /\ (pc[c] = "panicked") = Collect(resp[c]).panic

\* C9 witness: two calls both in their walk, each having sent the six
\* records of the same claim.
C9_Witness ==
    /\ pc["s1"] = "walk" /\ pc["s2"] = "walk"
    /\ Len(ch["s1"]) = 6 /\ Len(ch["s2"]) = 6
    /\ ch["s1"][1].lv = ch["s2"][1].lv
    /\ allPVCs["s1"] = allPVCs["s2"]

\* C10: no two records of a call share descriptor and label values; every
\* record uses one of the six descriptors of Describe, with two label
\* values: the namespace, then the name, of a claim of the document.
C10_NoDuplicateSeries ==
    \A c \in Calls :
        LET out == ch[c]
        IN  /\ \A i, j \in 1..Len(out) :
                 i < j => <<out[i].desc, out[i].lv>> # <<out[j].desc, out[j].lv>>
            /\ \A i \in 1..Len(out) :
                 /\ \E k \in 1..6 : Describe[k] = out[i].desc
                 /\ Len(out[i].lv) = Len(out[i].desc.variableLabels)
                 /\ \E id \in Identities(Flat(statsSummary[c])) :
                      out[i].lv = <<id.Namespace, id.Name>>

\* C10 witness: a returned call whose document repeats a claim and holds
\* two claims with the same dedup key.
C10_Witness ==
    LET flat == Flat(statsSummary["s1"])
    IN  /\ pc["s1"] = "returned"
        /\ Len(flat) = 3
        /\ \A i \in 1..3 : flat[i].PVCRef # Nil
        /\ flat[1].PVCRef = flat[3].PVCRef
        /\ flat[1].PVCRef # flat[2].PVCRef
        /\ pvcUniqStr(Deref(flat[1].PVCRef)) = pvcUniqStr(Deref(flat[2].PVCRef))
        /\ Len(ch["s1"]) = 6

====
